---------------------------- MODULE Spec2Model ----------------------------
(***************************************************************************)
(* local-llm-chat: the streaming bridge between the browser client, the    *)
(* Next.js relay (POST /api/chat) and the Ollama backend.                  *)
(*                                                                         *)
(* Text on the wire is a sequence of symbols.  A symbol is one character   *)
(* ("a", "SP", "NL", "Q" for the double quote, "BSL" for the backslash)    *)
(* or one lexeme the code never looks inside: a JSON key with its quotes   *)
(* and colon ("thinking:" is "thinking": on the wire), a JSON literal      *)
(* ("true"), the SSE field name "data:" and the sentinel "[DONE]".  A read *)
(* chunk may be cut between any two symbols.                               *)
(***************************************************************************)
EXTENDS Naturals, Sequences, FiniteSets

(***************************************************************************)
(* Bounds of the model.                                                    *)
(***************************************************************************)
MaxLines == 2
MaxTurns == 2
MaxStr == 1
MaxFrames == 3

(***************************************************************************)
(* Strings.                                                                *)
(***************************************************************************)
Whitespace == {"SP", "NL"}

PlainChars == {"a", "b", "n", "SP", "data:", "[DONE]", "{", "}", ","}

Keys == {"message:", "thinking:", "content:", "done:"}

RECURSIVE TrimStart(_)
TrimStart(s) ==
  IF s # <<>> /\ Head(s) \in Whitespace THEN TrimStart(Tail(s)) ELSE s

RECURSIVE TrimEnd(_)
TrimEnd(s) ==
  IF s # <<>> /\ s[Len(s)] \in Whitespace
    THEN TrimEnd(SubSeq(s, 1, Len(s) - 1))
    ELSE s

Trim(s) == TrimEnd(TrimStart(s))

RECURSIVE SplitNL(_)
SplitNL(s) ==
  IF \E i \in 1..Len(s) : s[i] = "NL"
    THEN LET i == CHOOSE j \in 1..Len(s) :
                    s[j] = "NL" /\ \A k \in 1..(j - 1) : s[k] # "NL"
         IN  <<SubSeq(s, 1, i - 1)>> \o SplitNL(SubSeq(s, i + 1, Len(s)))
    ELSE <<s>>

StartsWithData(l) == l # <<>> /\ Head(l) = "data:"

Slice5(l) == Tail(l)

(***************************************************************************)
(* JSON values: a string, true, false, null, or an object over Keys.       *)
(***************************************************************************)
JStr(s) == [kind |-> "str", str |-> s, mem |-> <<>>]
JTrue == [kind |-> "true", str |-> <<>>, mem |-> <<>>]
JFalse == [kind |-> "false", str |-> <<>>, mem |-> <<>>]
JNull == [kind |-> "null", str |-> <<>>, mem |-> <<>>]
JUndefined == [kind |-> "undefined", str |-> <<>>, mem |-> <<>>]
JObj(m) == [kind |-> "obj", str |-> <<>>, mem |-> m]

Truthy(v) ==
  \/ v.kind \in {"true", "obj"}
  \/ v.kind = "str" /\ v.str # <<>>

\* v.k of JavaScript; reading a property of null throws (the callers test for null).
Get(v, k) ==
  IF v.kind = "obj" /\ k \in DOMAIN v.mem THEN v.mem[k] ELSE JUndefined

Fail == [ok |-> FALSE, val |-> JNull, rest |-> <<>>]
Ok(v, r) == [ok |-> TRUE, val |-> v, rest |-> r]

RECURSIVE ParseChars(_, _)
ParseChars(s, acc) ==
  IF s = <<>> THEN Fail
  ELSE IF Head(s) = "Q" THEN Ok(JStr(acc), Tail(s))
  ELSE IF Head(s) = "BSL"
    THEN IF Len(s) < 2 THEN Fail
         ELSE IF s[2] = "n" THEN ParseChars(SubSeq(s, 3, Len(s)), Append(acc, "NL"))
         ELSE IF s[2] \in {"Q", "BSL"}
           THEN ParseChars(SubSeq(s, 3, Len(s)), Append(acc, s[2]))
         ELSE Fail
  ELSE IF Head(s) \in PlainChars THEN ParseChars(Tail(s), Append(acc, Head(s)))
  ELSE Fail

RECURSIVE ParseValue(_)
RECURSIVE ParseMember(_, _)
ParseMember(s, acc) ==
  LET s1 == TrimStart(s) IN
  IF s1 = <<>> \/ Head(s1) \notin Keys THEN Fail
  ELSE
    LET k == Head(s1)
        r == ParseValue(Tail(s1))
    IN
    IF ~r.ok THEN Fail
    ELSE
      LET acc2 == [x \in (DOMAIN acc) \cup {k} |-> IF x = k THEN r.val ELSE acc[x]]
          s2 == TrimStart(r.rest)
      IN
      IF s2 = <<>> THEN Fail
      ELSE IF Head(s2) = "," THEN ParseMember(Tail(s2), acc2)
      ELSE IF Head(s2) = "}" THEN Ok(JObj(acc2), Tail(s2))
      ELSE Fail

ParseValue(s) ==
  LET s1 == TrimStart(s) IN
  IF s1 = <<>> THEN Fail
  ELSE IF Head(s1) = "{"
    THEN LET s2 == TrimStart(Tail(s1)) IN
         IF s2 # <<>> /\ Head(s2) = "}"
           THEN Ok(JObj(<<>>), Tail(s2))
           ELSE ParseMember(s2, <<>>)
  ELSE IF Head(s1) = "Q" THEN ParseChars(Tail(s1), <<>>)
  ELSE IF Head(s1) = "true" THEN Ok(JTrue, Tail(s1))
  ELSE IF Head(s1) = "false" THEN Ok(JFalse, Tail(s1))
  ELSE IF Head(s1) = "null" THEN Ok(JNull, Tail(s1))
  ELSE Fail

\* JSON.parse: [ok |-> FALSE] is the SyntaxError.
JSONParse(s) ==
  LET r == ParseValue(s) IN
  IF r.ok /\ TrimStart(r.rest) = <<>> THEN r ELSE Fail

RECURSIVE EscapeChars(_)
EscapeChars(s) ==
  IF s = <<>> THEN <<>>
  ELSE IF Head(s) = "NL" THEN <<"BSL", "n">> \o EscapeChars(Tail(s))
  ELSE IF Head(s) \in {"Q", "BSL"} THEN <<"BSL", Head(s)>> \o EscapeChars(Tail(s))
  ELSE <<Head(s)>> \o EscapeChars(Tail(s))

KeyOrder == <<"message:", "thinking:", "content:", "done:">>

RECURSIVE StringifyValue(_)
RECURSIVE StringifyMembers(_, _, _)
StringifyMembers(m, i, first) ==
  IF i > Len(KeyOrder) THEN <<>>
  ELSE IF KeyOrder[i] \in DOMAIN m /\ m[KeyOrder[i]].kind # "undefined"
    THEN (IF first THEN <<>> ELSE <<",">>) \o <<KeyOrder[i]>>
         \o StringifyValue(m[KeyOrder[i]]) \o StringifyMembers(m, i + 1, FALSE)
  ELSE StringifyMembers(m, i + 1, first)

StringifyValue(v) ==
  IF v.kind = "str" THEN <<"Q">> \o EscapeChars(v.str) \o <<"Q">>
  ELSE IF v.kind = "obj" THEN <<"{">> \o StringifyMembers(v.mem, 1, TRUE) \o <<"}">>
  ELSE <<v.kind>>

\* The payload as it would be if only content were forwarded.
StringifyPayloadContentOnly(thinking, content) ==
  StringifyValue(JObj([k \in {"content:"} |-> content]))

\* JSON.stringify({ thinking, content }): an undefined property is left out.
StringifyPayload(thinking, content) ==
  StringifyValue(JObj([k \in {"thinking:", "content:"} |->
                        IF k = "thinking:" THEN thinking ELSE content]))


(***************************************************************************)
(* The relay's handling of one read chunk (POST, the body of the while     *)
(* loop) and the client's (handleSubmit, the body of its while loop).      *)
(***************************************************************************)
DoneEvent == <<"data:", "SP", "[DONE]", "NL", "NL">>

DataEvent(thinking, content) ==
  <<"data:", "SP">> \o StringifyPayload(thinking, content) \o <<"NL", "NL">>

\* The handling of a line as it would be without the test for text.
RelayLineAlwaysData(line) ==
  IF Trim(line) = <<>> THEN <<>>
  ELSE
    LET p == JSONParse(line) IN
    IF ~p.ok \/ p.val.kind = "null" THEN <<>>
    ELSE
      LET json == p.val
          m == Get(json, "message:")
          message == IF Truthy(m) THEN m ELSE JObj(<<>>)
          thinking == Get(message, "thinking:")
          content == Get(message, "content:")
      IN
      <<DataEvent(thinking, content)>>
      \o (IF Truthy(Get(json, "done:")) THEN <<DoneEvent>> ELSE <<>>)

\* The events one line makes the relay enqueue, in order.
RelayLine(line) ==
  IF Trim(line) = <<>> THEN <<>>
  ELSE
    LET p == JSONParse(line) IN
    IF ~p.ok \/ p.val.kind = "null" THEN <<>>
    ELSE
      LET json == p.val
          m == Get(json, "message:")
          message == IF Truthy(m) THEN m ELSE JObj(<<>>)
          thinking == Get(message, "thinking:")
          content == Get(message, "content:")
      IN
      (IF Truthy(thinking) \/ Truthy(content)
         THEN <<DataEvent(thinking, content)>>
         ELSE <<>>)
      \o (IF Truthy(Get(json, "done:")) THEN <<DoneEvent>> ELSE <<>>)

\* The for loop as it would be without the inner try: a line that fails to
\* parse ends the handling of the chunk.
RECURSIVE RelayLinesStopAtBad(_)
RelayLinesStopAtBad(lines) ==
  IF lines = <<>> THEN <<>>
  ELSE IF Trim(Head(lines)) # <<>> /\ ~JSONParse(Head(lines)).ok THEN <<>>
  ELSE RelayLine(Head(lines)) \o RelayLinesStopAtBad(Tail(lines))

RECURSIVE RelayLines(_)
RelayLines(lines) ==
  IF lines = <<>> THEN <<>>
  ELSE RelayLine(Head(lines)) \o RelayLines(Tail(lines))

\* decoder.decode(value).split("\n"), then the for loop.
RelayChunk(chunk) == RelayLines(SplitNL(chunk))

\* The lines of a chunk whose first enqueue is attempted.
RelayAttempts(chunk) ==
  Len(SelectSeq(SplitNL(chunk), LAMBDA l : RelayLine(l) # <<>>))

\* String(v) of JavaScript, as += applies it.
JSToString(v) ==
  IF v.kind = "str" THEN v.str
  ELSE IF v.kind = "obj" THEN <<"[object Object]">>
  ELSE <<v.kind>>

\* The application of a line as it would be with = in place of +=.
ClientLineOverwrites(acc, line) ==
  LET data == Trim(Slice5(line)) IN
  IF data = <<"[DONE]">> THEN [acc EXCEPT !.sawDone = TRUE]
  ELSE
    LET p == JSONParse(data) IN
    IF ~p.ok \/ p.val.kind = "null" THEN acc
    ELSE
      LET t == Get(p.val, "thinking:")
          c == Get(p.val, "content:")
      IN
      [thinking |-> IF Truthy(t) THEN JSToString(t) ELSE <<>>,
       content |-> IF Truthy(c) THEN JSToString(c) ELSE <<>>,
       published |-> acc.published + 1,
       sawDone |-> acc.sawDone,
       late |-> acc.late \/ acc.sawDone]

\* One "data:" line applied to the client's accumulators.
ClientLine(acc, line) ==
  LET data == Trim(Slice5(line)) IN
  IF data = <<"[DONE]">> THEN [acc EXCEPT !.sawDone = TRUE]
  ELSE
    LET p == JSONParse(data) IN
    IF ~p.ok \/ p.val.kind = "null" THEN acc
    ELSE
      LET t == Get(p.val, "thinking:")
          c == Get(p.val, "content:")
      IN
      [thinking |-> IF Truthy(t) THEN acc.thinking \o JSToString(t) ELSE acc.thinking,
       content |-> IF Truthy(c) THEN acc.content \o JSToString(c) ELSE acc.content,
       published |-> acc.published + 1,
       sawDone |-> acc.sawDone,
       late |-> acc.late \/ acc.sawDone]

RECURSIVE ClientLines(_, _)
ClientLines(acc, lines) ==
  IF lines = <<>> THEN acc
  ELSE ClientLines(ClientLine(acc, Head(lines)), Tail(lines))

\* The handling of a read as it would be if only its first data line were
\* applied.
ClientChunkFirstLine(acc, chunk) ==
  LET lines == SelectSeq(SplitNL(chunk), StartsWithData) IN
  IF lines = <<>> THEN acc ELSE ClientLine(acc, Head(lines))

\* decoder.decode(value).split("\n").filter(startsWith("data:")), then the for loop.
ClientChunk(acc, chunk) ==
  ClientLines(acc, SelectSeq(SplitNL(chunk), StartsWithData))

Acc0 ==
  [thinking |-> <<>>, content |-> <<>>, published |-> 0,
   sawDone |-> FALSE, late |-> FALSE]

(***************************************************************************)
(* The backend: well-formed NDJSON lines.                                  *)
(***************************************************************************)
Frame(thinking, content, done) ==
  JObj([k \in {"message:", "done:"} |->
         IF k = "message:"
           THEN JObj([j \in {"thinking:", "content:"} |->
                       IF j = "thinking:" THEN thinking ELSE content])
           ELSE done])

Frames ==
  { Frame(JStr(<<"a">>), JUndefined, JFalse),
    Frame(JUndefined, JStr(<<"b">>), JFalse),
    JObj([k \in {"done:"} |-> JTrue]) }

Scripts == UNION { [1..n -> Frames] : n \in 0..MaxLines }

RECURSIVE ScriptBytes(_)
ScriptBytes(script) ==
  IF script = <<>> THEN <<>>
  ELSE StringifyValue(Head(script)) \o <<"NL">> \o ScriptBytes(Tail(script))


(***************************************************************************)
(* State.                                                                  *)
(*                                                                         *)
(* The client is the Home component: its React state, and one instance of  *)
(* handleSubmit per accepted submission (a turn), suspended at an await.   *)
(* Turn t owns the transcript entries 2t-1 (the user message) and 2t (the  *)
(* draft).  POST invocations share no state, so the model holds one at a   *)
(* time: the request of a turn is taken up once the invocation before it   *)
(* has ended.                                                              *)
(***************************************************************************)
VARIABLES
  messages,     \* useState<Message[]>
  isLoading,    \* useState(false)
  abortRef,     \* 0 is null, t is the AbortController turn t created
  nTurns,       \* accepted submissions so far
  pc,           \* turn -> "idle" | "fetch" | "read" | "aborted" | "done"
  loc,          \* turn -> the locals thinking and content
  aborted,      \* turn -> signal.aborted
  readStarted,  \* the latest turn called reader.read()
  outcome,      \* how the latest turn ended ("none": it has not)
  received,     \* the bytes the latest turn has read
  sawDone,      \* the latest turn has seen [DONE]
  late,         \* the latest turn applied a payload after [DONE]
  stopTurn,     \* the turn handleStop aborted last (0: none)
  stopDraft,    \* its draft at that moment
  req,          \* the turn whose request POST serves (0: none yet)
  relayPc,      \* "none" | "fetch" | "stream" | "ended" | "refused"
  resp,         \* the response POST returned: [status, error]
  responses,    \* how many responses the invocation returned
  backendScript, \* the lines of the backend's answer
  backendRest,  \* bytes the backend has yet to deliver
  backendSent,  \* bytes the relay has read
  ds,           \* the ReadableStream: "none" | "readable" | "closing" | "closed" | "errored"
  dsCancelled,  \* the consumer cancelled the stream
  dsQueue,      \* chunks enqueued and not yet pulled
  net,          \* bytes on their way to the client
  netFault,     \* the relay-to-client transfer broke
  readerLocked, \* the lock of ollamaResponse.body's reader
  enqueued,     \* the events the stream accepted, in order
  readFaulted,  \* a backend read threw
  enqFailed,    \* an enqueue threw
  lateRead,     \* a backend read completed after an enqueue threw
  lateEnq,      \* an enqueue was attempted after an enqueue threw
  faultLate     \* a fault struck after the client had applied an event

reactVars == <<messages, isLoading, abortRef>>

turnVars == <<nTurns, pc, loc, aborted>>

histVars == <<readStarted, outcome, received, sawDone, late, stopTurn, stopDraft>>

clientVars == <<reactVars, turnVars, histVars>>

relayCtl == <<req, relayPc, resp, responses>>

backendVars == <<backendScript, backendRest, backendSent>>

streamVars == <<ds, dsCancelled, dsQueue>>

netVars == <<net, netFault>>

relayHist ==
  <<readerLocked, enqueued, readFaulted, enqFailed, lateRead, lateEnq, faultLate>>

relayVars == <<relayCtl, backendVars, streamVars, netVars, relayHist>>

vars == <<clientVars, relayVars>>

Turns == 1..MaxTurns

\* A Message; hasThinking tells whether the optional thinking property is set.
NoDraft == [role |-> "none", content |-> <<>>, thinking |-> <<>>, hasThinking |-> FALSE]

NoResp == [status |-> 0, error |-> ""]

Loc0 == [thinking |-> <<>>, content |-> <<>>]

\* The error marker, "\n\n[...]" at route.ts:295.
Marker == <<"NL", "NL", "[ERR]">>

\* What the textarea may hold when handleSubmit is called.
Inputs == {<<>>, <<"SP">>, <<"q">>}

Init ==
  /\ messages = <<>>
  /\ isLoading = FALSE
  /\ abortRef = 0
  /\ nTurns = 0
  /\ pc = [t \in Turns |-> "idle"]
  /\ loc = [t \in Turns |-> Loc0]
  /\ aborted = [t \in Turns |-> FALSE]
  /\ readStarted = FALSE
  /\ outcome = "none"
  /\ received = <<>>
  /\ sawDone = FALSE
  /\ late = FALSE
  /\ stopTurn = 0
  /\ stopDraft = NoDraft
  /\ req = 0
  /\ relayPc = "none"
  /\ resp = NoResp
  /\ responses = 0
  /\ backendScript = <<>>
  /\ backendRest = <<>>
  /\ backendSent = <<>>
  /\ ds = "none"
  /\ dsCancelled = FALSE
  /\ dsQueue = <<>>
  /\ net = <<>>
  /\ netFault = FALSE
  /\ readerLocked = FALSE
  /\ enqueued = <<>>
  /\ readFaulted = FALSE
  /\ enqFailed = FALSE
  /\ lateRead = FALSE
  /\ lateEnq = FALSE
  /\ faultLate = FALSE

\* A rejected await resumes its function in a microtask, which runs before
\* the browser dispatches the next event.
NoMicrotask == \A t \in Turns : pc[t] # "aborted"

Active(t) == pc[t] \in {"fetch", "read"}

\* The client of the invocation is reading and has applied an event.
Applied ==
  /\ req # 0
  /\ pc[req] = "read"
  /\ messages[2 * req].hasThinking

(***************************************************************************)
(* The client: handleSubmit and handleStop.                                *)
(***************************************************************************)
UserMessage(text) ==
  [role |-> "user", content |-> text, thinking |-> <<>>, hasThinking |-> FALSE]

EmptyDraft ==
  [role |-> "assistant", content |-> <<>>, thinking |-> <<>>, hasThinking |-> FALSE]

\* The update as it would be if it added the snapshot to the transcript.
AppendSnapshot(prev, m) == prev \o <<m>>

\* (prev) => [...prev.slice(0, -1), m]
ReplaceLast(prev, m) ==
  IF prev = <<>> THEN <<m>> ELSE SubSeq(prev, 1, Len(prev) - 1) \o <<m>>

\* The marker update as it would be if it did not keep the previous content.
AppendMarkerReplacing(prev) ==
  ReplaceLast(prev, [prev[Len(prev)] EXCEPT !.content = Marker])

\* (prev) => [...prev.slice(0, -1), { ...last, content: last.content + marker }]
AppendMarker(prev) ==
  ReplaceLast(prev, [prev[Len(prev)] EXCEPT !.content = @ \o Marker])

\* finally { setIsLoading(false); abortRef.current = null; }
TurnFinally(t, how) ==
  /\ isLoading' = FALSE
  /\ abortRef' = 0
  /\ pc' = [pc EXCEPT ![t] = "done"]
  /\ loc' = [loc EXCEPT ![t] = Loc0]
  /\ outcome' = how

\* catch (error) with an error that is no AbortError, then finally.
TurnFails(t, how) ==
  /\ messages' = AppendMarker(messages)
  /\ TurnFinally(t, how)

\* handleSubmit as it would be without the isLoading half of its guard.
handleSubmitNoGuard(text) ==
  /\ NoMicrotask
  /\ IF Trim(text) = <<>>
       THEN UNCHANGED vars
       ELSE /\ nTurns < MaxTurns
            /\ messages' = messages \o <<UserMessage(Trim(text)), EmptyDraft>>
            /\ isLoading' = TRUE
            /\ abortRef' = nTurns + 1
            /\ nTurns' = nTurns + 1
            /\ pc' = [pc EXCEPT ![nTurns + 1] = "fetch"]
            /\ readStarted' = FALSE
            /\ outcome' = "none"
            /\ received' = <<>>
            /\ sawDone' = FALSE
            /\ late' = FALSE
            /\ UNCHANGED <<loc, aborted, stopTurn, stopDraft, relayVars>>

\* handleSubmit, called with text in the textarea, up to its first await.
handleSubmit(text) ==
  /\ NoMicrotask
  /\ IF Trim(text) = <<>> \/ isLoading
       THEN UNCHANGED vars
       ELSE /\ nTurns < MaxTurns
            /\ messages' = messages \o <<UserMessage(Trim(text)), EmptyDraft>>
            /\ isLoading' = TRUE
            /\ abortRef' = nTurns + 1
            /\ nTurns' = nTurns + 1
            /\ pc' = [pc EXCEPT ![nTurns + 1] = "fetch"]
            /\ readStarted' = FALSE
            /\ outcome' = "none"
            /\ received' = <<>>
            /\ sawDone' = FALSE
            /\ late' = FALSE
            /\ UNCHANGED <<loc, aborted, stopTurn, stopDraft, relayVars>>

\* handleStop as it would be without the call of abort().
handleStopNoAbort ==
  /\ NoMicrotask
  /\ abortRef' = 0
  /\ isLoading' = FALSE
  /\ UNCHANGED <<messages, turnVars, histVars, relayVars>>

handleStop ==
  /\ NoMicrotask
  /\ IF abortRef # 0
       THEN /\ aborted' = [aborted EXCEPT ![abortRef] = TRUE]
            /\ IF Active(abortRef)
                 THEN /\ pc' = [pc EXCEPT ![abortRef] = "aborted"]
                      /\ stopTurn' = abortRef
                      /\ stopDraft' = messages[2 * abortRef]
                 ELSE UNCHANGED <<pc, stopTurn, stopDraft>>
       ELSE UNCHANGED <<aborted, pc, stopTurn, stopDraft>>
  /\ abortRef' = 0
  /\ isLoading' = FALSE
  /\ UNCHANGED <<messages, nTurns, loc, readStarted, outcome, received,
                 sawDone, late, relayVars>>

\* The settling of an abort as it would be if catch did not tell the
\* AbortError from other errors.
TurnAbortSettlesMarks(t) ==
  /\ pc[t] = "aborted"
  /\ TurnFails(t, "abort")
  /\ net' = IF req = t THEN <<>> ELSE net
  /\ UNCHANGED <<nTurns, aborted, readStarted, received, sawDone, late,
                 stopTurn, stopDraft, relayCtl, backendVars, streamVars,
                 netFault, relayHist>>

\* The awaited fetch or read rejected with the AbortError: catch appends
\* nothing, finally runs.
TurnAbortSettles(t) ==
  /\ pc[t] = "aborted"
  /\ TurnFinally(t, "abort")
  /\ net' = IF req = t THEN <<>> ELSE net
  /\ UNCHANGED <<messages, nTurns, aborted, readStarted, received, sawDone,
                 late, stopTurn, stopDraft, relayCtl, backendVars, streamVars,
                 netFault, relayHist>>

\* fetch rejects: the request or the response head was lost.
ClientFetchFails(t) ==
  /\ NoMicrotask
  /\ pc[t] = "fetch"
  /\ TurnFails(t, "nofetch")
  /\ netFault' = (netFault \/ req = t)
  /\ UNCHANGED <<nTurns, aborted, readStarted, received, sawDone, late,
                 stopTurn, stopDraft, relayCtl, backendVars, streamVars, net,
                 relayHist>>

\* The resolution of fetch as it would be without the response.ok test.
ClientFetchResolvesUnchecked(t) ==
  /\ NoMicrotask
  /\ pc[t] = "fetch"
  /\ req = t
  /\ resp.status # 0
  /\ pc' = [pc EXCEPT ![t] = "read"]
  /\ readStarted' = TRUE
  /\ UNCHANGED <<messages, isLoading, abortRef, loc, outcome>>
  /\ UNCHANGED <<nTurns, aborted, received, sawDone, late, stopTurn,
                 stopDraft, relayVars>>

\* fetch resolves with the relay's response; !response.ok throws.
ClientFetchResolves(t) ==
  /\ NoMicrotask
  /\ pc[t] = "fetch"
  /\ req = t
  /\ resp.status # 0
  /\ IF resp.status # 200
       THEN /\ TurnFails(t, "refused")
            /\ UNCHANGED readStarted
       ELSE /\ pc' = [pc EXCEPT ![t] = "read"]
            /\ readStarted' = TRUE
            /\ UNCHANGED <<messages, isLoading, abortRef, loc, outcome>>
  /\ UNCHANGED <<nTurns, aborted, received, sawDone, late, stopTurn,
                 stopDraft, relayVars>>

\* fetch resolves with a response that has no body (one the relay did not
\* send): !response.body throws.
ClientFetchNoBody(t) ==
  /\ NoMicrotask
  /\ pc[t] = "fetch"
  /\ req # t
  /\ TurnFails(t, "nobody")
  /\ UNCHANGED <<nTurns, aborted, readStarted, received, sawDone, late,
                 stopTurn, stopDraft, relayVars>>

\* reader.read() resolves with the next n bytes.
ClientRead(t, n) ==
  /\ NoMicrotask
  /\ pc[t] = "read"
  /\ req = t
  /\ n \in 1..Len(net)
  /\ LET chunk == SubSeq(net, 1, n)
         r == ClientChunk([thinking |-> loc[t].thinking,
                           content |-> loc[t].content,
                           published |-> 0,
                           sawDone |-> sawDone,
                           late |-> late], chunk)
     IN
     /\ loc' = [loc EXCEPT ![t] = [thinking |-> r.thinking, content |-> r.content]]
     /\ messages' =
          IF r.published > 0
            THEN ReplaceLast(messages,
                   [role |-> "assistant", content |-> r.content,
                    thinking |-> r.thinking, hasThinking |-> TRUE])
            ELSE messages
     /\ received' = received \o chunk
     /\ sawDone' = r.sawDone
     /\ late' = r.late
     /\ net' = SubSeq(net, n + 1, Len(net))
  /\ UNCHANGED <<isLoading, abortRef, nTurns, pc, aborted, readStarted,
                 outcome, stopTurn, stopDraft, relayCtl, backendVars,
                 streamVars, netFault, relayHist>>

\* reader.read() resolves with done: break, finally.
ClientReadEOF(t) ==
  /\ NoMicrotask
  /\ pc[t] = "read"
  /\ req = t
  /\ net = <<>>
  /\ ds = "closed"
  /\ ~dsCancelled
  /\ ~netFault
  /\ TurnFinally(t, "eof")
  /\ UNCHANGED <<messages, nTurns, aborted, readStarted, received, sawDone,
                 late, stopTurn, stopDraft, relayVars>>

\* The rejected read as it would be if the loop caught the error and read
\* again.
ClientReadFaultRetries(t) ==
  /\ NoMicrotask
  /\ pc[t] = "read"
  /\ req = t
  /\ netFault
  /\ UNCHANGED vars

\* reader.read() rejects with a network error.
ClientReadFault(t) ==
  /\ NoMicrotask
  /\ pc[t] = "read"
  /\ req = t
  /\ netFault
  /\ TurnFails(t, "fault")
  /\ net' = <<>>
  /\ UNCHANGED <<nTurns, aborted, readStarted, received, sawDone, late,
                 stopTurn, stopDraft, relayCtl, backendVars, streamVars,
                 netFault, relayHist>>

(***************************************************************************)
(* The relay: POST.                                                        *)
(***************************************************************************)
\* The request of turn t reaches the route: POST is invoked.
RequestArrives(t) ==
  /\ pc[t] = "fetch"
  /\ req # t
  /\ relayPc \in {"none", "ended", "refused"}
  /\ req # 0 => pc[req] = "done"
  /\ req' = t
  /\ relayPc' = "fetch"
  /\ resp' = NoResp
  /\ responses' = 0
  /\ backendScript' = <<>>
  /\ backendRest' = <<>>
  /\ backendSent' = <<>>
  /\ ds' = "none"
  /\ dsCancelled' = FALSE
  /\ dsQueue' = <<>>
  /\ net' = <<>>
  /\ netFault' = FALSE
  /\ readerLocked' = FALSE
  /\ enqueued' = <<>>
  /\ readFaulted' = FALSE
  /\ enqFailed' = FALSE
  /\ lateRead' = FALSE
  /\ lateEnq' = FALSE
  /\ faultLate' = FALSE
  /\ UNCHANGED clientVars

RefuseCauses == {"json throws", "fetch throws", "not ok", "no body"}

\* A refusal as it would be if the relay reported it inside an event stream.
RelayRefusesInStream(cause) ==
  /\ relayPc = "fetch"
  /\ relayPc' = "refused"
  /\ resp' = [status |-> 200, error |-> ""]
  /\ responses' = responses + 1
  /\ ds' = "closing"
  /\ dsQueue' = <<DoneEvent>>
  /\ enqueued' = <<DoneEvent>>
  /\ UNCHANGED <<clientVars, req, backendVars, dsCancelled, netVars,
                 readerLocked, readFaulted, enqFailed, lateRead, lateEnq,
                 faultLate>>

\* request.json() or fetch throws (the outer catch), or the backend answers
\* with a non-success status or without a body: one 500 response, whose
\* error is the text of line 80 ("ollama") or of line 140 ("internal").
RelayRefuses(cause) ==
  /\ relayPc = "fetch"
  /\ relayPc' = "refused"
  /\ resp' = [status |-> 500,
              error |-> IF cause \in {"not ok", "no body"}
                          THEN "ollama"
                          ELSE "internal"]
  /\ responses' = responses + 1
  /\ UNCHANGED <<clientVars, req, backendVars, streamVars, netVars, relayHist>>

\* The backend answered: new ReadableStream, start() runs to its first
\* reader.read(), and the 200 response is returned.
RelayOpens(script) ==
  /\ relayPc = "fetch"
  /\ relayPc' = "stream"
  /\ resp' = [status |-> 200, error |-> ""]
  /\ responses' = responses + 1
  /\ backendScript' = script
  /\ backendRest' = ScriptBytes(script)
  /\ ds' = "readable"
  /\ readerLocked' = TRUE
  /\ UNCHANGED <<clientVars, req, backendSent, dsCancelled, dsQueue, netVars,
                 enqueued, readFaulted, enqFailed, lateRead, lateEnq,
                 faultLate>>

\* reader.read() resolves with the next n bytes: the for loop over its lines.
\* An enqueue on a stream that is no longer readable throws into the inner
\* catch, which skips the rest of that line only.
RelayRead(n) ==
  /\ relayPc = "stream"
  /\ n \in 1..Len(backendRest)
  /\ LET chunk == SubSeq(backendRest, 1, n)
         events == RelayChunk(chunk)
         attempts == RelayAttempts(chunk)
     IN
     /\ backendRest' = SubSeq(backendRest, n + 1, Len(backendRest))
     /\ backendSent' = backendSent \o chunk
     /\ IF ds = "readable"
          THEN /\ dsQueue' = dsQueue \o events
               /\ enqueued' = enqueued \o events
               /\ UNCHANGED <<enqFailed, lateEnq>>
          ELSE /\ enqFailed' = (enqFailed \/ attempts > 0)
               /\ lateEnq' = (lateEnq \/ attempts > 1 \/ (enqFailed /\ attempts > 0))
               /\ UNCHANGED <<dsQueue, enqueued>>
     /\ lateRead' = (lateRead \/ enqFailed)
  /\ UNCHANGED <<clientVars, relayCtl, ds, dsCancelled, netVars, readerLocked,
                 readFaulted, faultLate, backendScript>>

\* finally { controller.close(); reader.releaseLock(); } and the end of
\* start().  close() throws on a stream that is not readable, and then
\* releaseLock() is not reached.  When start() ends by a throw, its promise
\* rejects and the stream, if it still holds chunks, is errored.
RelayFinally(thrown) ==
  /\ relayPc' = "ended"
  /\ IF ds = "readable"
       THEN /\ readerLocked' = FALSE
            /\ IF dsQueue = <<>>
                 THEN /\ ds' = "closed"
                      /\ UNCHANGED <<dsQueue, netFault>>
                 ELSE IF thrown
                   THEN /\ ds' = "errored"
                        /\ dsQueue' = <<>>
                        /\ netFault' = TRUE
                   ELSE /\ ds' = "closing"
                        /\ UNCHANGED <<dsQueue, netFault>>
       ELSE UNCHANGED <<readerLocked, ds, dsQueue, netFault>>

\* The end of the backend stream as it would be if the relay then emitted
\* a [DONE] event of its own.
RelayReadEOFSynthesizes ==
  /\ relayPc = "stream"
  /\ backendRest = <<>>
  /\ relayPc' = "ended"
  /\ IF ds = "readable"
       THEN /\ enqueued' = enqueued \o <<DoneEvent>>
            /\ dsQueue' = dsQueue \o <<DoneEvent>>
            /\ ds' = "closing"
            /\ readerLocked' = FALSE
       ELSE UNCHANGED <<enqueued, dsQueue, ds, readerLocked>>
  /\ lateRead' = (lateRead \/ enqFailed)
  /\ UNCHANGED <<clientVars, req, resp, responses, backendVars, dsCancelled,
                 netVars, readFaulted, enqFailed, lateEnq, faultLate>>

\* reader.read() resolves with done: break.
RelayReadEOF ==
  /\ relayPc = "stream"
  /\ backendRest = <<>>
  /\ RelayFinally(FALSE)
  /\ lateRead' = (lateRead \/ enqFailed)
  /\ UNCHANGED <<clientVars, req, resp, responses, backendVars, dsCancelled,
                 net, enqueued, readFaulted, enqFailed, lateEnq, faultLate>>

\* reader.read() rejects: the backend connection broke.
RelayReadFault ==
  /\ relayPc = "stream"
  /\ readFaulted' = TRUE
  /\ RelayFinally(TRUE)
  /\ lateRead' = (lateRead \/ enqFailed)
  /\ faultLate' = (faultLate \/ Applied)
  /\ UNCHANGED <<clientVars, req, resp, responses, backendVars, dsCancelled,
                 net, enqueued, enqFailed, lateEnq>>

(***************************************************************************)
(* The response body between the relay and the client.                     *)
(***************************************************************************)
\* The server pulls the next chunk of the stream and writes it out.
Pump ==
  /\ ds \in {"readable", "closing"}
  /\ dsQueue # <<>>
  /\ net' = (IF pc[req] = "done" THEN <<>> ELSE net \o Head(dsQueue))
  /\ dsQueue' = Tail(dsQueue)
  /\ ds' = IF ds = "closing" /\ Tail(dsQueue) = <<>> THEN "closed" ELSE ds
  /\ UNCHANGED <<clientVars, relayCtl, backendVars, dsCancelled, netFault,
                 relayHist>>

\* The connection to the client breaks while the body is in transfer.
NetFault ==
  /\ resp.status = 200
  /\ pc[req] = "read"
  /\ ~netFault
  /\ netFault' = TRUE
  /\ faultLate' = (faultLate \/ Applied)
  /\ UNCHANGED <<clientVars, relayCtl, backendVars, streamVars, net,
                 readerLocked, enqueued, readFaulted, enqFailed, lateRead,
                 lateEnq>>

\* The client is gone (it aborted, or the connection broke): the server
\* cancels the response stream.
DownstreamCancel ==
  /\ ds \in {"readable", "closing"}
  /\ aborted[req] \/ netFault \/ pc[req] = "done"
  /\ ds' = "closed"
  /\ dsCancelled' = TRUE
  /\ dsQueue' = <<>>
  /\ UNCHANGED <<clientVars, relayCtl, backendVars, netVars, relayHist>>

(***************************************************************************)
(* The system: the backend answers with one of scripts, the turns in       *)
(* starts may begin, and with whole set every read ends at the end of a    *)
(* line or event.                                                          *)
(***************************************************************************)
\* The lengths a read of the pending bytes s may have.
Cuts(s, whole) ==
  { n \in 1..Len(s) :
      whole => s[n] = "NL" /\ (n = Len(s) \/ s[n + 1] # "NL") }

System(scripts, starts, whole) ==
  \/ \E text \in Inputs : handleSubmit(text) /\ nTurns' \in {nTurns} \cup starts
  \/ handleStop
  \/ \E t \in Turns : TurnAbortSettles(t)
  \/ \E t \in Turns : ClientFetchFails(t)
  \/ \E t \in Turns : ClientFetchResolves(t)
  \/ \E t \in Turns : ClientFetchNoBody(t)
  \/ \E t \in Turns, n \in Cuts(net, whole) : ClientRead(t, n)
  \/ \E t \in Turns : ClientReadEOF(t)
  \/ \E t \in Turns : ClientReadFault(t)
  \/ \E t \in Turns : RequestArrives(t)
  \/ \E cause \in RefuseCauses : RelayRefuses(cause)
  \/ \E script \in scripts : RelayOpens(script)
  \/ \E n \in Cuts(backendRest, whole) : RelayRead(n)
  \/ RelayReadEOF
  \/ RelayReadFault
  \/ Pump
  \/ NetFault
  \/ DownstreamCancel

OneLine == { s \in Scripts : Len(s) <= 1 }

\* One turn, any answer, any cut.
Next == System(Scripts, {1}, FALSE)

Spec == Init /\ [][Next]_vars

\* Several turns, answers of one line, any cut.
NextTurns == System(OneLine, Turns, FALSE)

SpecTurns == Init /\ [][NextTurns]_vars

\* One turn, any answer, whole lines and events.
NextLines == System(Scripts, {1}, TRUE)

SpecLines == Init /\ [][NextLines]_vars

(***************************************************************************)
(* The pipeline without faults: a turn whose response stream is open, an   *)
(* answer of the backend drawn from FrameInputs, and reads of whole lines  *)
(* and events.                                                             *)
(***************************************************************************)
StrAlphabet == {"a", "NL", "data:", "Q"}

Strings == UNION { [1..n -> StrAlphabet] : n \in 0..MaxStr }

\* message.thinking and message.content: a string, or absent.
TextValues == { JStr(s) : s \in Strings } \cup {JUndefined}

RichFrames ==
  { Frame(t, c, d) : t \in TextValues, c \in TextValues, d \in {JTrue, JFalse} }

LongScripts == UNION { [1..n -> Frames] : n \in 0..MaxFrames }

\* A line that is no JSON: a frame cut short.
BadLine == [kind |-> "bad", str |-> <<>>, mem |-> <<>>]

NoisyScripts == { a \o <<BadLine>> \o b : a \in OneLine, b \in OneLine }

FrameInputs == { <<f>> : f \in RichFrames } \cup LongScripts \cup NoisyScripts

LineBytes(v) ==
  IF v = BadLine THEN <<"{", "message:">> ELSE StringifyValue(v)

RECURSIVE WireBytes(_)
WireBytes(script) ==
  IF script = <<>> THEN <<>>
  ELSE LineBytes(Head(script)) \o <<"NL">> \o WireBytes(Tail(script))

\* An event whose payload is no JSON.
BadEvent == <<"data:", "SP", "{", "content:", "NL", "NL">>

Contains(s, sub) ==
  \E i \in 1..(Len(s) - Len(sub) + 1) : SubSeq(s, i, i + Len(sub) - 1) = sub

\* The state after handleSubmit, RequestArrives, RelayOpens and
\* ClientFetchResolves, with the backend's answer drawn from FrameInputs.
InitFrames ==
  /\ messages = <<UserMessage(<<"q">>), EmptyDraft>>
  /\ isLoading = TRUE
  /\ abortRef = 1
  /\ nTurns = 1
  /\ pc = [t \in Turns |-> IF t = 1 THEN "read" ELSE "idle"]
  /\ loc = [t \in Turns |-> Loc0]
  /\ aborted = [t \in Turns |-> FALSE]
  /\ readStarted = TRUE
  /\ outcome = "none"
  /\ received = <<>>
  /\ sawDone = FALSE
  /\ late = FALSE
  /\ stopTurn = 0
  /\ stopDraft = NoDraft
  /\ req = 1
  /\ relayPc = "stream"
  /\ resp = [status |-> 200, error |-> ""]
  /\ responses = 1
  /\ backendScript \in FrameInputs
  /\ backendRest = WireBytes(backendScript)
  /\ backendSent = <<>>
  /\ ds = "readable"
  /\ dsCancelled = FALSE
  /\ dsQueue = <<>>
  /\ net = <<>>
  /\ netFault = FALSE
  /\ readerLocked = TRUE
  /\ enqueued = <<>>
  /\ readFaulted = FALSE
  /\ enqFailed = FALSE
  /\ lateRead = FALSE
  /\ lateEnq = FALSE
  /\ faultLate = FALSE

\* A malformed event reaches the client between two events of the relay.
Garble ==
  /\ pc[1] = "read"
  /\ ~Contains(received \o net, BadEvent)
  /\ net' = net \o BadEvent
  /\ UNCHANGED <<clientVars, relayCtl, backendVars, streamVars, netFault,
                 relayHist>>

NextFrames ==
  \/ \E n \in Cuts(backendRest, TRUE) : RelayRead(n)
  \/ RelayReadEOF
  \/ Pump
  \/ Garble
  \/ \E n \in Cuts(net, TRUE) : ClientRead(1, n)
  \/ ClientReadEOF(1)

SpecFrames == InitFrames /\ [][NextFrames]_vars

\* The event loop runs the continuation of every settled await.
ClientFairness ==
  /\ WF_vars(\E t \in Turns : TurnAbortSettles(t))
  /\ WF_vars(\E t \in Turns : ClientFetchResolves(t))
  /\ WF_vars(\E t \in Turns : ClientReadEOF(t))
  /\ WF_vars(\E t \in Turns : ClientReadFault(t))

\* Several turns, answers of one line, whole lines and events.
NextLive == System(OneLine, Turns, TRUE)

SpecLive == Init /\ [][NextLive]_vars /\ ClientFairness

(***************************************************************************)
(* Properties.                                                             *)
(***************************************************************************)
\* The assistant draft of turn t: the second of the two messages that
\* handleSubmit appended for it.
Draft(t) == messages[2 * t]

EndsWithMarker(s) ==
  /\ Len(s) >= Len(Marker)
  /\ SubSeq(s, Len(s) - Len(Marker) + 1, Len(s)) = Marker

\* What one read of all the bytes the client received would have applied.
SingleRead == ClientChunk(Acc0, received)

\* C1: relay fragmentation invariance.  When the relay has read the whole
\* backend stream without a fault and every enqueue was accepted, the events
\* it enqueued are those it enqueues when the same bytes come as one chunk.
C1_RelayFragmentationInvariance ==
  (relayPc = "ended" /\ ~readFaulted /\ ~dsCancelled)
    => enqueued = RelayChunk(backendSent)

\* C2: client fragmentation invariance.  When a turn ends at the end of the
\* stream, the draft's thinking and content are those a single read of the
\* same bytes yields.
C2_ClientFragmentationInvariance ==
  outcome = "eof"
    => /\ Draft(nTurns).content = SingleRead.content
       /\ Draft(nTurns).thinking = SingleRead.thinking

\* C3: the terminal sentinel is final.  No payload is applied to the draft,
\* and no snapshot published, after the read loop has seen [DONE].
C3_TerminalSentinelFinal == ~late

\* C4: cancellation keeps what was shown and is not an error.  From
\* handleStop on, the draft of the stopped turn is the draft as it was at the
\* stop, it does not end with the error marker, and isLoading is false until
\* a new handleSubmit is accepted.
C4_StopKeepsDraft ==
  stopTurn # 0
    => /\ Draft(stopTurn) = stopDraft
       /\ ~EndsWithMarker(Draft(stopTurn).content)
       /\ nTurns = stopTurn => ~isLoading
       /\ pc[stopTurn] = "done" /\ nTurns = stopTurn => outcome = "abort"

\* A turn was stopped after a fragment had been applied, and the next
\* handleSubmit was accepted.
C4_Witness ==
  /\ stopTurn = 1
  /\ stopDraft.content # <<>>
  /\ pc[1] = "done"
  /\ nTurns = 2
  /\ isLoading

ActiveTurns == {t \in Turns : Active(t)}

\* C5: single in-flight turn.  At most one turn is active in every state,
\* and a handleSubmit called while a turn is active changes nothing.
C5_SingleInFlight ==
  /\ Cardinality(ActiveTurns) <= 1
  /\ [][ /\ Cardinality(ActiveTurns') <= 1
         /\ \A text \in Inputs :
              (ActiveTurns # {} /\ handleSubmit(text)) => UNCHANGED vars ]_vars

\* A second turn reads its stream after the first one ended.
C5_Witness ==
  /\ nTurns = 2
  /\ pc[1] = "done"
  /\ pc[2] = "read"
  /\ isLoading

\* C6: the relay fails fast.  After an enqueue threw, the relay performs no
\* backend read and attempts no enqueue, and after a backend read or an
\* enqueue threw its stream task has ended.
C6_RelayFailsFast ==
  /\ ~lateRead
  /\ ~lateEnq
  /\ (readFaulted \/ enqFailed) => relayPc = "ended"

\* C7: the relay releases its resources on every exit path.  When the stream
\* task has ended, the downstream stream is closed and the lock of the
\* backend reader is released.
C7_RelayReleases ==
  relayPc = "ended"
    => /\ ds \in {"closing", "closed", "errored"}
       /\ ~readerLocked

\* C8: a mid-stream transport failure reaches the user.  When a backend read
\* or the transfer to the client faulted after the client had applied an
\* event, and the user did not stop the turn, the turn ends with the draft
\* holding the applied text followed by the error marker.
C8_FaultReachesUser ==
  (faultLate /\ req = nTurns /\ outcome \notin {"none", "abort"})
    => /\ Draft(nTurns).content = SingleRead.content \o Marker
       /\ Draft(nTurns).thinking = SingleRead.thinking

\* C9: a connect-time failure opens no stream.  A refused request got one
\* response, with status 500 and an error string, and no stream and no event.
C9_RefusalOpensNoStream ==
  relayPc = "refused"
    => /\ responses = 1
       /\ resp.status = 500
       /\ resp.error # ""
       /\ ds = "none"
       /\ enqueued = <<>>
       /\ dsQueue = <<>>
       /\ net = <<>>

\* The backend answered without success and the relay refused the request.
C9_Witness ==
  /\ relayPc = "refused"
  /\ resp.error = "ollama"
  /\ responses = 1

\* C10: the client's handling of a refused turn.  The response stream is
\* read only when the response is OK, and a turn whose response was not OK
\* or had no body ends without a read, with the error marker at the end of
\* the draft's content and with isLoading false.
C10_RefusedTurn ==
  /\ readStarted => resp.status = 200
  /\ outcome \in {"refused", "nobody"}
       => /\ ~readStarted
          /\ EndsWithMarker(Draft(nTurns).content)
          /\ received = <<>>
          /\ ~isLoading

\* A turn ended on the relay's 500.
C10_Witness ==
  /\ outcome = "refused"
  /\ resp.status = 500
  /\ pc[nTurns] = "done"

FailOutcomes == {"nofetch", "refused", "nobody", "fault"}

\* C11: the client's failure path.  A turn that ends on an error other than
\* the AbortError leaves the transcript with its length and every entry but
\* the last unchanged, the draft's content followed by the error marker, the
\* draft's other properties unchanged, the call finished and isLoading false.
C11_FailurePath ==
  [][ (outcome = "none" /\ outcome' \in FailOutcomes)
        => /\ Len(messages') = Len(messages)
           /\ \A i \in 1..(Len(messages) - 1) : messages'[i] = messages[i]
           /\ Draft(nTurns)' =
                [Draft(nTurns) EXCEPT !.content = Draft(nTurns).content \o Marker]
           /\ pc'[nTurns] = "done"
           /\ ~isLoading'
           /\ abortRef' = 0 ]_vars

\* A read of the response stream failed after text had been applied in a
\* second turn.
C11_Witness ==
  /\ outcome = "fault"
  /\ nTurns = 2
  /\ Draft(2).hasThinking
  /\ Len(Draft(2).content) + Len(Draft(2).thinking) > Len(Marker)
  /\ EndsWithMarker(Draft(2).content)

IsPrefix(a, b) == Len(a) <= Len(b) /\ SubSeq(b, 1, Len(a)) = a

\* The accumulators after the first i data lines of the bytes that a step
\* adds to received.
SnapshotAfter(i) ==
  LET chunk == SubSeq(received', Len(received) + 1, Len(received'))
      lines == SelectSeq(SplitNL(chunk), StartsWithData)
  IN ClientLines([thinking |-> loc[nTurns].thinking,
                  content |-> loc[nTurns].content,
                  published |-> 0, sawDone |-> sawDone, late |-> late],
                 SubSeq(lines, 1, i))

\* The number of data lines in the bytes that a step adds to received.
NewDataLines ==
  IF Len(received') > Len(received)
    THEN Len(SelectSeq(SplitNL(SubSeq(received', Len(received) + 1, Len(received'))),
                       StartsWithData))
    ELSE 0

\* C12: the draft is append-only within a turn.  Every step leaves each
\* draft's content and thinking a prefix of their new values, and so does
\* each snapshot that the lines of one read publish, one after the other.
C12_DraftAppendOnly ==
  [][ /\ \A t \in 1..nTurns :
           /\ IsPrefix(Draft(t).content, Draft(t)'.content)
           /\ IsPrefix(Draft(t).thinking, Draft(t)'.thinking)
      /\ \A i \in 1..NewDataLines :
           /\ IsPrefix(SnapshotAfter(i - 1).content, SnapshotAfter(i).content)
           /\ IsPrefix(SnapshotAfter(i - 1).thinking, SnapshotAfter(i).thinking)
           /\ IsPrefix(Draft(nTurns).content, SnapshotAfter(i).content)
           /\ IsPrefix(Draft(nTurns).thinking, SnapshotAfter(i).thinking) ]_vars

\* Two fragments were applied to the draft, and the turn then failed.
C12_Witness ==
  /\ outcome = "fault"
  /\ Draft(1).thinking = <<"a">>
  /\ Draft(1).content = <<"b">> \o Marker

StrOf(v) == IF v.kind = "str" THEN v.str ELSE <<>>

\* The in-order concatenation of the strings that the frames of script carry
\* under key in their message.
RECURSIVE TextOf(_, _)
TextOf(script, key) ==
  IF script = <<>> THEN <<>>
  ELSE StrOf(Get(Get(Head(script), "message:"), key)) \o TextOf(Tail(script), key)

WellFormed(script) == \A i \in 1..Len(script) : script[i] # BadLine

EndsWithDone(script) ==
  /\ script # <<>>
  /\ Get(script[Len(script)], "done:") = JTrue

\* C13: end-to-end accumulation.  When the backend's frames are well formed
\* and end with a done frame, and lines and events are delivered whole, the
\* settled draft's thinking and content are the concatenations of the
\* frames' thinking and content strings.
C13_EndToEnd ==
  ( /\ outcome = "eof"
    /\ WellFormed(backendScript)
    /\ EndsWithDone(backendScript)
    /\ ~Contains(received, BadEvent) )
    => /\ Draft(1).thinking = TextOf(backendScript, "thinking:")
       /\ Draft(1).content = TextOf(backendScript, "content:")

\* Two thinking frames and a done frame were relayed and the turn settled.
C13_Witness ==
  /\ outcome = "eof"
  /\ Len(backendScript) = 3
  /\ EndsWithDone(backendScript)
  /\ TextOf(backendScript, "thinking:") = <<"a", "a">>
  /\ Draft(1).thinking = <<"a", "a">>
  /\ sawDone

HasText(v) == v.kind = "str" /\ v.str # <<>>

Present(v) == v.kind # "undefined"

\* The events C14 prescribes for the frame f.
ExpectedEvents(f) ==
  LET th == Get(Get(f, "message:"), "thinking:")
      c == Get(Get(f, "message:"), "content:")
      data == <<"data:", "SP", "{">>
              \o (IF Present(th) THEN <<"thinking:">> \o StringifyValue(th) ELSE <<>>)
              \o (IF Present(th) /\ Present(c) THEN <<",">> ELSE <<>>)
              \o (IF Present(c) THEN <<"content:">> \o StringifyValue(c) ELSE <<>>)
              \o <<"}", "NL", "NL">>
  IN (IF HasText(th) \/ HasText(c) THEN <<data>> ELSE <<>>)
     \o (IF Get(f, "done:") = JTrue THEN <<DoneEvent>> ELSE <<>>)

RECURSIVE ExpectedAll(_)
ExpectedAll(script) ==
  IF script = <<>> THEN <<>>
  ELSE (IF Head(script) = BadLine THEN <<>> ELSE ExpectedEvents(Head(script)))
       \o ExpectedAll(Tail(script))

\* The number of lines the relay has read.
LinesRead == Len(SelectSeq(backendSent, LAMBDA ch : ch = "NL"))

\* C14: the relay's output per frame.  For the well-formed frames the relay
\* has read it has enqueued, frame by frame: nothing for a frame without
\* text and with done false, one data event holding the frame's fields for a
\* frame with text, and then one [DONE] event for a frame with done true.
C14_PerFrameOutput ==
  (WellFormed(backendScript) /\ ~dsCancelled)
    => enqueued = ExpectedAll(SubSeq(backendScript, 1, LinesRead))

\* A frame with thinking, content and done true was relayed.
C14_Witness ==
  /\ backendScript = <<Frame(JStr(<<"NL">>), JStr(<<"data:">>), JTrue)>>
  /\ LinesRead = 1
  /\ Len(enqueued) = 2
  /\ enqueued[2] = DoneEvent

\* The lines of script that are frames.
Valid(script) == SelectSeq(script, LAMBDA v : v # BadLine)

\* C15: malformed units are skipped.  A line of the backend that is no JSON,
\* and an event whose payload is no JSON, change nothing: the relay enqueues
\* the events of the frames around the line, in order, reads on to the end,
\* and the turn ends at the end of the stream with the text of those frames
\* and without the error marker.
C15_MalformedSkipped ==
  (~WellFormed(backendScript) \/ Contains(received \o net, BadEvent))
    => /\ enqueued = ExpectedAll(Valid(SubSeq(backendScript, 1, LinesRead)))
       /\ relayPc = "ended" => LinesRead = Len(backendScript)
       /\ outcome \in {"none", "eof"}
       /\ outcome = "eof"
            => /\ Draft(1).thinking = TextOf(Valid(backendScript), "thinking:")
               /\ Draft(1).content = TextOf(Valid(backendScript), "content:")
               /\ ~isLoading

\* A malformed line between two frames and a malformed event between their
\* two events, and the turn settled with the text of both frames.
C15_Witness ==
  /\ outcome = "eof"
  /\ Len(backendScript) = 3
  /\ backendScript[2] = BadLine
  /\ Len(enqueued) = 2
  /\ received = enqueued[1] \o BadEvent \o enqueued[2]
  /\ Draft(1).thinking = <<"a">>
  /\ Draft(1).content = <<"b">>

NoDone(script) == \A i \in 1..Len(script) : Get(script[i], "done:") # JTrue

\* C16: no synthesized sentinel.  When no frame of the backend's answer has
\* done true, the relay enqueues no [DONE] event and, at the end of the
\* backend stream, closes its stream; the client, whose draft holds the text
\* accumulated so far, ends the turn at the end of the stream without
\* changing the transcript, without the error marker and with isLoading
\* false.
C16_NoSynthesizedSentinel ==
  /\ [](NoDone(backendScript)
         => /\ \A i \in 1..Len(enqueued) : enqueued[i] # DoneEvent
            /\ (relayPc = "ended" /\ ~readFaulted) => ds \in {"closing", "closed"}
            /\ \A t \in Turns :
                 pc[t] = "read"
                   => /\ Draft(t).thinking = loc[t].thinking
                      /\ Draft(t).content = loc[t].content
            /\ outcome = "eof"
                 => /\ ~sawDone
                    /\ ~EndsWithMarker(Draft(nTurns).content)
                    /\ ~isLoading
                    /\ abortRef = 0)
  /\ [][(outcome = "none" /\ outcome' = "eof") => messages' = messages]_vars

\* An answer of one content frame without done was relayed to its end and
\* the turn settled at the end of the stream.
C16_Witness ==
  /\ outcome = "eof"
  /\ backendScript # <<>>
  /\ NoDone(backendScript)
  /\ relayPc = "ended"
  /\ ~readFaulted
  /\ backendRest = <<>>
  /\ Draft(nTurns).content = <<"b">>

\* The answer is one frame whose thinking and content are strings, one of
\* them not empty.
PairFrame ==
  /\ Len(backendScript) = 1
  /\ backendScript[1] # BadLine
  /\ LET th == Get(Get(backendScript[1], "message:"), "thinking:")
         c == Get(Get(backendScript[1], "message:"), "content:")
     IN /\ th.kind = "str"
        /\ c.kind = "str"
        /\ th.str # <<>> \/ c.str # <<>>

\* C17: the round trip of encoder and decoder.  For a pair of thinking and
\* content strings, one of them not empty, the event the relay encodes,
\* decoded whole by the client, adds exactly the thinking to the draft's
\* thinking and exactly the content to the draft's content.
C17_RoundTrip ==
  PairFrame
    => LET th == Get(Get(backendScript[1], "message:"), "thinking:")
           c == Get(Get(backendScript[1], "message:"), "content:")
           decoded == ClientChunk(Acc0, DataEvent(th, c))
       IN /\ decoded.thinking = th.str
          /\ decoded.content = c.str
          /\ decoded.published = 1
          /\ (outcome = "eof" /\ ~Contains(received, BadEvent))
               => /\ Draft(1).thinking = th.str
                  /\ Draft(1).content = c.str

\* A pair with a newline and the text of the event prefix went through the
\* relay and the client.
C17_Witness ==
  /\ outcome = "eof"
  /\ backendScript = <<Frame(JStr(<<"NL">>), JStr(<<"data:">>), JFalse)>>
  /\ Len(enqueued) = 1
  /\ received = enqueued[1]
  /\ Draft(1).thinking = <<"NL">>
  /\ Draft(1).content = <<"data:">>

\* C18: snapshots touch only the draft slot.  A step that changes the
\* transcript and keeps its length changes only the last entry, which is an
\* assistant message afterwards; a step that changes its length is an
\* accepted handleSubmit, which appends the user message and an empty
\* assistant draft.
C18_OnlyDraftSlot ==
  [][ messages' # messages
        => IF Len(messages') = Len(messages)
             THEN /\ \A i \in 1..(Len(messages) - 1) : messages'[i] = messages[i]
                  /\ messages'[Len(messages')].role = "assistant"
                  /\ messages[Len(messages)].role = "assistant"
             ELSE /\ nTurns' = nTurns + 1
                  /\ pc'[nTurns'] = "fetch"
                  /\ \E text \in Inputs :
                       /\ Trim(text) # <<>>
                       /\ messages' = messages \o <<UserMessage(Trim(text)), EmptyDraft>> ]_vars

\* In a second turn a fragment was applied and the error marker appended,
\* with the two messages of the first turn in place.
C18_Witness ==
  /\ nTurns = 2
  /\ Len(messages) = 4
  /\ outcome = "fault"
  /\ Draft(2).content = <<"b">> \o Marker
  /\ Draft(1).content = <<"b">>

\* C19: a finished or cancelled turn cannot disturb a later one.  While a
\* turn is active isLoading is true and abortRef holds that turn's
\* controller; every turn before the latest has run its finally; and no step
\* changes the position or the draft of a turn before the latest.
C19_NoLateCleanup ==
  /\ [](/\ \A t \in Turns : Active(t) => isLoading /\ abortRef = t
        /\ \A t \in 1..(nTurns - 1) : pc[t] = "done")
  /\ [][\A t \in 1..(nTurns - 1) : pc'[t] = pc[t] /\ Draft(t)' = Draft(t)]_vars

\* The first turn was stopped and the second one is reading its stream.
C19_Witness ==
  /\ stopTurn = 1
  /\ nTurns = 2
  /\ pc[2] = "read"
  /\ Draft(2).hasThinking
  /\ abortRef = 2
  /\ isLoading

\* The await of turn t is settled: the turn was stopped, the relay refused
\* the request, the transfer of the response faulted, or the response stream
\* is at its end.
Settled(t) ==
  \/ pc[t] = "aborted"
  \/ pc[t] = "fetch" /\ req = t /\ resp.status = 500
  \/ pc[t] = "read" /\ req = t /\ netFault
  \/ pc[t] = "read" /\ req = t /\ net = <<>> /\ ds = "closed" /\ ~netFault

\* C20: every turn ends.  Under fair scheduling of the client's
\* continuations a turn whose await is settled reaches the end of
\* handleSubmit; when the latest turn has ended isLoading is false and
\* abortRef is null; and a turn that has ended stays ended with its draft
\* unchanged.
C20_EveryTurnEnds ==
  /\ \A t \in Turns : Settled(t) ~> (pc[t] = "done")
  /\ [](nTurns > 0 /\ pc[nTurns] = "done" => ~isLoading /\ abortRef = 0)
  /\ [][\A t \in 1..nTurns :
          pc[t] = "done" => pc'[t] = "done" /\ Draft(t)' = Draft(t)]_vars

\* A stopped turn and a turn whose transfer faulted have both ended.
C20_Witness ==
  /\ nTurns = 2
  /\ stopTurn = 1
  /\ pc[1] = "done"
  /\ pc[2] = "done"
  /\ outcome = "fault"
  /\ ~isLoading
  /\ abortRef = 0

=============================================================================
